---- MODULE Spec2Model ----
(***************************************************************************)
(* Bounded-parallel bulk operations of Bucket: deleteFiles and             *)
(* makeAllFilesPublicPrivate_ (src/unnamed/part_001).  Both list the files *)
(* with getFiles and hand the listing to async.eachLimit with the limit 10 *)
(* and a per-file iteratee; the dispatcher state (running, done, the      *)
(* iterator position and the once-wrapped completion callback) is the     *)
(* state eachLimit keeps for one call.  Bucket.makePublic and              *)
(* Bucket.makePrivate run their bucket-level requests and then              *)
(* makeAllFilesPublicPrivate_ as the tasks of async.series.  SpecTwo runs   *)
(* two bulk operations on the same bucket side by side.                     *)
(*                                                                         *)
(* A file is its position in the listing (1..n); the error a per-file      *)
(* action returns is identified by the file it belongs to; the listing     *)
(* error is 0.           The arrays errors and updatedFiles are bags: the  *)
(* code only pushes to them and hands them to the caller, and their order  *)
(* is the completion order.                                                *)
(***************************************************************************)
EXTENDS Integers, Sequences, FiniteSets, Bags, TLC

\* Mutant: the limit passed to eachLimit is one too large.
LimitOneMore == 10 + 1

\* const MAX_PARALLEL_LIMIT = 10 (deleteFiles and makeAllFilesPublicPrivate_)
MAX_PARALLEL_LIMIT == 10

\* Largest listing getFiles returns in the model.
MaxFiles == 11
\* A per-file action may call back while at most this many older actions are
\* still in flight.
MaxOvertake == 1
\* At most this many per-file actions call back with an error in one run.
MaxFailures == 2
\* Objects the service returns in one page of a listing.
PageSize == 4

Methods == {"deleteFiles", "makeAllFilesPublicPrivate_"}
Wrappers == {"makePublic", "makePrivate"}
Invocations == 1..2

VARIABLES
    pc,            \* "idle", "getFiles" (listing requested), "eachLimit", "listError"
    method,        \* the bulk operation invoked
    force,         \* query.force / options.force
    optPublic,     \* options.public
    optPrivate,    \* options.private
    autoPaginate,  \* query.autoPaginate !== false
    remote,        \* number of objects in the bucket that match the query
    listed,        \* objects returned by the list requests made so far
    files,         \* the listing passed to eachLimit (sequence of files)
    nextIdx,       \* eachLimit: elements taken from the iterator so far
    running,       \* eachLimit: iteratee invocations not yet called back
    done,          \* eachLimit: done flag
    fired,         \* eachLimit: once(callback) has been called
    started,       \* sequence of files whose file.delete/makePublic/makePrivate was called
    pending,       \* files whose action was called and has not called back
    failed,        \* files whose action called back with an error
    errors,        \* const errors = [] (bag of errors)
    updatedFiles,  \* const updatedFiles = [] (bag of files)
    cbCount,       \* invocations of the caller's completion callback
    cbErr,         \* first argument of the caller's callback
    cbFiles,       \* second argument of the caller's callback
    wrapper,       \* "none", or the bucket.makePublic / bucket.makePrivate call in progress
    includeFiles,  \* options.includeFiles
    wpc,           \* "idle", "series" (a task of async.series is running), "done"
    stepsRun,      \* the tasks async.series has started, in order
    stepsOk,       \* number of tasks that called done without an error
    wcbCount,      \* invocations of the callback given to makePublic / makePrivate
    wcbErr,        \* its first argument
    wcbSecond      \* its second argument

bulkVars == <<pc, method, force, optPublic, optPrivate, autoPaginate, remote, listed,
              files, nextIdx, running, done, fired, started, pending, failed, errors,
              updatedFiles, cbCount, cbErr, cbFiles>>

seriesVars == <<wrapper, includeFiles, wpc, stepsRun, stepsOk, wcbCount, wcbErr, wcbSecond>>

\* Two invocations of the bulk operations on one bucket (SpecTwo).
VARIABLES
    inv,           \* per invocation: its options, its eachLimit state, its callback
    errStore,      \* the errors arrays, by the scope that declares them
    fileStore      \* the updatedFiles arrays, by the scope that declares them

twoVars == <<inv, errStore, fileStore>>

vars == <<bulkVars, seriesVars, twoVars>>

config == <<method, force, optPublic, optPrivate, autoPaginate, remote>>

\* The first callback argument: nothing yet, null, one error, or the errors array.
NoCall == <<"none">>
Null == <<"null">>
SingleError(e) == <<"error", e>>
ErrorsArray == <<"errors">>

\* The error getFiles calls back with (per-file errors are 1..n).
ListingError == 0

\* The error a bucket-level request (setMetadata, acl.add) calls back with.
BucketError == 0 - 1

\* Second argument of the callback given to makePublic / makePrivate: absent,
\* the results array of async.series, or (as documented) the array of files.
Absent == <<"none">>
Results(rs) == <<"results", rs>>
FilesArray == <<"updatedFiles">>

Listing(n) == [i \in 1..n |-> i]

\* An invocation that has not been called yet.
IdleInvocation ==
    [pc |-> "idle", method |-> "deleteFiles", force |-> FALSE, n |-> 0,
     nextIdx |-> 0, running |-> 0, done |-> FALSE, fired |-> FALSE,
     pending |-> {}, failed |-> {}, cbCount |-> 0, cbErr |-> NoCall,
     cbFiles |-> "none", overlapped |-> FALSE]

Init ==
    /\ pc = "idle"
    /\ method = "deleteFiles"
    /\ force = FALSE
    /\ optPublic = FALSE
    /\ optPrivate = FALSE
    /\ autoPaginate = TRUE
    /\ remote \in 0..MaxFiles
    /\ listed = 0
    /\ files = <<>>
    /\ nextIdx = 0
    /\ running = 0
    /\ done = FALSE
    /\ fired = FALSE
    /\ started = <<>>
    /\ pending = {}
    /\ failed = {}
    /\ errors = EmptyBag
    /\ updatedFiles = EmptyBag
    /\ cbCount = 0
    /\ cbErr = NoCall
    /\ cbFiles = "none"
    /\ wrapper = "none"
    /\ includeFiles = FALSE
    /\ wpc = "idle"
    /\ stepsRun = <<>>
    /\ stepsOk = 0
    /\ wcbCount = 0
    /\ wcbErr = NoCall
    /\ wcbSecond = Absent
    /\ inv = [i \in Invocations |-> IdleInvocation]
    /\ errStore = [k \in Invocations |-> EmptyBag]
    /\ fileStore = [k \in Invocations |-> EmptyBag]

\* async.series([setPredefinedAcl, makeFilesPrivate], callback) in makePrivate,
\* async.series([addAclPermissions, addDefaultAclPermissions, makeFilesPublic],
\* callback) in makePublic.
Tasks(w) ==
    IF w = "makePrivate"
    THEN <<"setPredefinedAcl", "makeFilesPrivate">>
    ELSE <<"addAclPermissions", "addDefaultAclPermissions", "makeFilesPublic">>

IsFilesTask(t) == t \in {"makeFilesPrivate", "makeFilesPublic"}

\* Mutant: the includeFiles test is missing.
CallsFilesAlways(inc) == TRUE

\* makeFilesPrivate / makeFilesPublic: if (!options.includeFiles) { done(); return; }
CallsFiles(inc) == inc

\* What a task hands to done as its result: a bucket-level request its
\* response, makeFiles* without includeFiles nothing.
TaskResult(t) == IF IsFilesTask(t) THEN "undefined" ELSE "response"

\* async.series calls callback(err, results): results holds the result of
\* every task that has called done, in task order.
SeriesCallback(err, rs) ==
    /\ wpc' = "done"
    /\ wcbCount' = wcbCount + 1
    /\ wcbErr' = err
    /\ wcbSecond' = Results(rs)

\* The results of the tasks that have called done so far.
ResultsSoFar == [i \in 1..Len(stepsRun) |-> TaskResult(stepsRun[i])]

\* The callback a bulk operation was given is invoked (called) with err and
\* second.  Called from makePublic / makePrivate the callback is the done of
\* the last task of the series, which completes the series.
Deliver(called, err, second) ==
    IF called /\ wrapper # "none"
    THEN /\ SeriesCallback(
               IF err = Null THEN Null ELSE err,
               [i \in 1..Len(stepsRun) |->
                   IF i = Len(stepsRun) THEN second ELSE TaskResult(stepsRun[i])])
         /\ stepsOk' = IF err = Null THEN stepsOk + 1 ELSE stepsOk
         /\ UNCHANGED <<wrapper, includeFiles, stepsRun>>
    ELSE UNCHANGED seriesVars

\* processFile calls file.makePublic if options.public, else file.makePrivate if
\* options.private, else nothing; deleteFile always calls file.delete.
HasAction(m, pub, priv) == m = "deleteFiles" \/ pub \/ priv

\* Mutant: replenish stops one short of the limit.
CanStartLeavesSlot(r, d) == r + 1 < MAX_PARALLEL_LIMIT /\ ~d

\* eachLimit, replenish: while (running < limit && !done)
CanStart(r, d) == r < MAX_PARALLEL_LIMIT /\ ~d

\* Mutant: the exhausted iterator calls callback(null) without looking at running.
RECURSIVE ReplenishCallsBackEarly(_, _)
ReplenishCallsBackEarly(e, n) ==
    IF e.running < MAX_PARALLEL_LIMIT /\ ~e.done
    THEN IF e.nextIdx >= n
         THEN [e EXCEPT !.done = TRUE, !.call = "null"]
         ELSE ReplenishCallsBackEarly(
                  [e EXCEPT !.running = @ + 1, !.nextIdx = @ + 1], n)
    ELSE e

\* Mutant: the exhausted iterator sets done and never calls the callback itself.
RECURSIVE ReplenishSilentWhenEmpty(_, _)
ReplenishSilentWhenEmpty(e, n) ==
    IF e.running < MAX_PARALLEL_LIMIT /\ ~e.done
    THEN IF e.nextIdx >= n
         THEN [e EXCEPT !.done = TRUE]
         ELSE ReplenishSilentWhenEmpty(
                  [e EXCEPT !.running = @ + 1, !.nextIdx = @ + 1], n)
    ELSE e

\* eachLimit, replenish: takes elements from the iterator and invokes the
\* iteratee on each while CanStart; when the iterator is exhausted it sets done
\* and, with nothing running, calls callback(null).  e.call is what the
\* dispatcher passes to its completion callback in this step: "none", "null", "err".
RECURSIVE Replenish(_, _)
Replenish(e, n) ==
    IF CanStart(e.running, e.done)
    THEN IF e.nextIdx >= n
         THEN [e EXCEPT !.done = TRUE,
                        !.call = IF e.running <= 0 THEN "null" ELSE e.call]
         ELSE Replenish([e EXCEPT !.running = @ + 1, !.nextIdx = @ + 1], n)
    ELSE e

\* Mutant: an error stops the dispatch but is reported only once nothing is
\* running any more.
IterateeCallbackWaits(e, err, n) ==
    LET r == e.running - 1 IN
    IF err
    THEN [e EXCEPT !.running = r, !.done = TRUE,
                   !.call = IF r <= 0 THEN "err" ELSE "none"]
    ELSE IF e.done /\ r <= 0
         THEN [e EXCEPT !.running = r, !.done = TRUE, !.call = "null"]
         ELSE Replenish([e EXCEPT !.running = r], n)

\* Mutant: the last iteratee to call back does not call the completion callback.
IterateeCallbackForgets(e, err, n) ==
    LET r == e.running - 1 IN
    IF err
    THEN [e EXCEPT !.running = r, !.done = TRUE, !.call = "err"]
    ELSE IF e.done /\ r <= 0
         THEN [e EXCEPT !.running = r, !.done = TRUE]
         ELSE Replenish([e EXCEPT !.running = r], n)

\* Mutant: running is not decremented when an iteratee calls back.
IterateeCallbackLosesUpdate(e, err, n) ==
    LET r == e.running IN
    IF err
    THEN [e EXCEPT !.running = r, !.done = TRUE, !.call = "err"]
    ELSE IF e.done /\ r <= 0
         THEN [e EXCEPT !.running = r, !.done = TRUE, !.call = "null"]
         ELSE Replenish([e EXCEPT !.running = r], n)

\* eachLimit (import * as async from 'async'), iterateeCallback(err): one
\* iteratee called back.  An error sets done and calls the completion callback
\* at once; otherwise the callback is called when done and nothing is running,
\* else the window is refilled.
IterateeCallback(e, err, n) ==
    LET r == e.running - 1 IN
    IF err
    THEN [e EXCEPT !.running = r, !.done = TRUE, !.call = "err"]
    ELSE IF e.done /\ r <= 0
         THEN [e EXCEPT !.running = r, !.done = TRUE, !.call = "null"]
         ELSE Replenish([e EXCEPT !.running = r], n)

\* Mutant: the force branch is missing, every error goes to the dispatcher.
PassesErrorAlways(err, frc) == err

\* Mutant: the error is swallowed, the dispatcher is always told callback().
PassesErrorNever(err, frc) == FALSE

\* deleteFile / processedCallback: the error handed on to the dispatcher
\* (callback(err)) is the action's error unless force is set.
PassesError(err, frc) == err /\ ~frc

\* Mutant: errors.push(err) is missing.
PushesErrorNever(err, frc) == FALSE

\* Mutant: errors.push(err) runs whether or not force is set.
PushesErrorAlways(err, frc) == err

\* deleteFile / processedCallback: errors.push(err) when force is set.
PushesError(err, frc) == err /\ frc

\* Mutant: updatedFiles.push(file) runs before the error check.
PushesFileAlways(m, err) == m = "makeAllFilesPublicPrivate_"

\* Mutant: updatedFiles.push(file) is missing.
PushesFileNever(m, err) == FALSE

\* processedCallback: updatedFiles.push(file) when the action succeeded.
PushesFile(m, err) == m = "makeAllFilesPublicPrivate_" /\ ~err

\* Mutant: callback(errors) instead of callback(err || errors).
FinalArgErrorsOnly(call, f, errs) ==
    IF call = "err" \/ BagCardinality(errs) > 0 THEN ErrorsArray ELSE Null

\* Mutant: callback(errors.length > 0 ? errors : null), the error is forgotten.
FinalArgDropsError(call, f, errs) ==
    IF BagCardinality(errs) > 0 THEN ErrorsArray ELSE Null

\* The completion callback given to eachLimit:
\* if (err || errors.length > 0) callback(err || errors) else callback(null)
FinalArg(call, f, errs) ==
    IF call = "err" THEN SingleError(f)
    ELSE IF BagCardinality(errs) > 0 THEN ErrorsArray ELSE Null

\* Mutant: updatedFiles is not handed to the caller.
FinalFilesNone(m) == "none"

\* Mutant: deleteFiles hands over a list of files as well.
FinalFilesAlways(m) == "updatedFiles"

\* deleteFiles passes one argument; makeAllFilesPublicPrivate_ passes updatedFiles too.
FinalFiles(m) == IF m = "makeAllFilesPublicPrivate_" THEN "updatedFiles" ELSE "none"

\* Mutant: the completion callback is not wrapped in once.
FiresCallbackEveryTime(call, frd) == call # "none"

\* eachLimit wraps its completion callback in once: of the calls the
\* dispatcher makes (call # "none") only the first one runs it.
FiresCallback(call, frd) == call # "none" /\ ~frd

Engine == [running |-> running, done |-> done, nextIdx |-> nextIdx, call |-> "none"]

\* Mutant: the iterator hands out the last element again before moving on.
DispatchRepeatsElement(e, f, errs, fls) ==
    LET new == SubSeq(fls, IF nextIdx > 0 THEN nextIdx ELSE 1, e.nextIdx)
        acts == IF HasAction(method, optPublic, optPrivate) THEN new ELSE <<>>
    IN /\ running' = e.running
       /\ done' = e.done
       /\ nextIdx' = e.nextIdx
       /\ started' = started \o acts
       /\ pending' = (pending \ {f}) \cup {acts[i] : i \in 1..Len(acts)}
       /\ IF FiresCallback(e.call, fired)
          THEN /\ fired' = TRUE
               /\ cbCount' = cbCount + 1
               /\ cbErr' = FinalArg(e.call, f, errs)
               /\ cbFiles' = FinalFiles(method)
          ELSE UNCHANGED <<fired, cbCount, cbErr, cbFiles>>
       /\ Deliver(FiresCallback(e.call, fired), cbErr', cbFiles')

\* Effect of one dispatcher step that ended in state e: the files newly taken
\* from the iterator have their action called, and the once-wrapped completion
\* callback runs if the step called it for the first time.
Dispatch(e, f, errs, fls) ==
    LET new == SubSeq(fls, nextIdx + 1, e.nextIdx)
        acts == IF HasAction(method, optPublic, optPrivate) THEN new ELSE <<>>
    IN /\ running' = e.running
       /\ done' = e.done
       /\ nextIdx' = e.nextIdx
       /\ started' = started \o acts
       /\ pending' = (pending \ {f}) \cup {acts[i] : i \in 1..Len(acts)}
       /\ IF FiresCallback(e.call, fired)
          THEN /\ fired' = TRUE
               /\ cbCount' = cbCount + 1
               /\ cbErr' = FinalArg(e.call, f, errs)
               /\ cbFiles' = FinalFiles(method)
          ELSE UNCHANGED <<fired, cbCount, cbErr, cbFiles>>
       /\ Deliver(FiresCallback(e.call, fired), cbErr', cbFiles')

\* bucket.deleteFiles(query, callback) / bucket.makeAllFilesPublicPrivate_(options,
\* callback): remembers the options and calls this.getFiles.
Call(m, frc, pub, priv, auto) ==
    /\ pc = "idle"
    /\ wpc = "idle"
    /\ m = "deleteFiles" => ~pub /\ ~priv
    /\ pc' = "getFiles"
    /\ method' = m
    /\ force' = frc
    /\ optPublic' = pub
    /\ optPrivate' = priv
    /\ autoPaginate' = auto
    /\ UNCHANGED <<remote, listed, files, nextIdx, running, done, fired, started,
                   pending, failed, errors, updatedFiles, cbCount, cbErr, cbFiles>>
    /\ UNCHANGED seriesVars
    /\ UNCHANGED twoVars

\* Mutant: the return after callback(err) is missing, so eachLimit runs on the
\* undefined listing and calls the completion callback a second time, with null.
GetFilesErrorNoReturn ==
    /\ pc = "getFiles"
    /\ pc' = "listError"
    /\ cbCount' = cbCount + 2
    /\ cbErr' = Null
    /\ cbFiles' = FinalFiles(method)
    /\ Deliver(TRUE, cbErr', cbFiles')
    /\ UNCHANGED <<config, listed, files, nextIdx, running, done, fired, started,
                   pending, failed, errors, updatedFiles>>
    /\ UNCHANGED twoVars

\* Mutant: deleteFiles passes the listing error alone, as callback(err).
GetFilesErrorOneArg ==
    /\ pc = "getFiles"
    /\ pc' = "listError"
    /\ cbCount' = cbCount + 1
    /\ cbErr' = SingleError(ListingError)
    /\ cbFiles' = "none"
    /\ Deliver(TRUE, cbErr', cbFiles')
    /\ UNCHANGED <<config, listed, files, nextIdx, running, done, fired, started,
                   pending, failed, errors, updatedFiles>>
    /\ UNCHANGED twoVars

\* getFiles calls back with an error: callback(err, {}) in deleteFiles,
\* callback(err) in makeAllFilesPublicPrivate_.
GetFilesError ==
    /\ pc = "getFiles"
    /\ pc' = "listError"
    /\ cbCount' = cbCount + 1
    /\ cbErr' = SingleError(ListingError)
    /\ cbFiles' = IF method = "deleteFiles" THEN "{}" ELSE "none"
    /\ Deliver(TRUE, cbErr', cbFiles')
    /\ UNCHANGED <<config, listed, files, nextIdx, running, done, fired, started,
                   pending, failed, errors, updatedFiles>>
    /\ UNCHANGED twoVars

\* getFiles, one list request: the objects returned through the page that
\* starts after l of r matching objects (arrify(resp.items)).
PageEnd(l, r) == IF l + PageSize < r THEN l + PageSize ELSE r

\* getFiles: resp.nextPageToken is set, so nextQuery is not null.
HasNextPage(l, r) == l + PageSize < r

\* Mutant: the next page is never requested.
FollowsNextPageNever(auto, more) == FALSE

\* paginator.extend(Bucket, 'getFiles'): with autoPaginate (the default) the
\* wrapped getFiles requests nextQuery until there is none and calls back once
\* with all files; with autoPaginate: false it calls back with the first page
\* and nextQuery, which deleteFiles and makeAllFilesPublicPrivate_ ignore.
FollowsNextPage(auto, more) == auto /\ more

\* A list request returned a page and the next page is requested.
GetFilesNextPage ==
    /\ pc = "getFiles"
    /\ FollowsNextPage(autoPaginate, HasNextPage(listed, remote))
    /\ listed' = PageEnd(listed, remote)
    /\ UNCHANGED <<pc, config, files, nextIdx, running, done, fired, started, pending,
                   failed, errors, updatedFiles, cbCount, cbErr, cbFiles>>
    /\ UNCHANGED seriesVars
    /\ UNCHANGED twoVars

\* getFiles calls back with the files: async.eachLimit(files, MAX_PARALLEL_LIMIT, ...).
GetFilesOk ==
    /\ pc = "getFiles"
    /\ ~FollowsNextPage(autoPaginate, HasNextPage(listed, remote))
    /\ pc' = "eachLimit"
    /\ listed' = PageEnd(listed, remote)
    /\ files' = Listing(listed')
    /\ Dispatch(Replenish(Engine, listed'), 0, errors, files')
    /\ UNCHANGED <<config, failed, errors, updatedFiles>>
    /\ UNCHANGED twoVars

\* The action of file f may call back now.
MayCallBack(f) ==
    /\ pc = "eachLimit"
    /\ f \in pending
    /\ Cardinality({g \in pending : g < f}) <= MaxOvertake

\* The action of file f calls back (err: with an error).
FileCallback(f, err) ==
    /\ MayCallBack(f)
    /\ failed' = IF err THEN failed \cup {f} ELSE failed
    /\ errors' = IF PushesError(err, force) THEN errors (+) SetToBag({f}) ELSE errors
    /\ updatedFiles' = IF PushesFile(method, err)
                       THEN updatedFiles (+) SetToBag({f}) ELSE updatedFiles
    /\ Dispatch(IterateeCallback(Engine, PassesError(err, force), Len(files)),
                f, errors', files)
    /\ UNCHANGED <<pc, config, listed, files>>
    /\ UNCHANGED twoVars

ActionOk(f) == FileCallback(f, FALSE)

ActionFail(f) ==
    /\ Cardinality(failed) < MaxFailures
    /\ FileCallback(f, TRUE)

\* async.series starts task k of the wrapper w in progress.  A bucket-level
\* task sends its request.  makeFilesPrivate / makeFilesPublic either calls
\* done() at once, which ends the series, or calls
\* this.makeAllFilesPublicPrivate_(options, done) with options.private /
\* req.public set; the options of makePublic / makePrivate (includeFiles,
\* force, userProject) leave autoPaginate at its default.
StartTask(w, inc, k, oks) ==
    LET t == Tasks(w)[k]
        run == Append(stepsRun, t)
    IN /\ stepsRun' = run
       /\ IF ~IsFilesTask(t)
          THEN /\ wpc' = "series"
               /\ stepsOk' = oks
               /\ UNCHANGED <<wcbCount, wcbErr, wcbSecond>>
               /\ UNCHANGED <<pc, method, optPublic, optPrivate, autoPaginate>>
          ELSE IF ~CallsFiles(inc)
          THEN /\ IF k < Len(Tasks(w))
                  THEN /\ wpc' = "series"
                       /\ UNCHANGED <<wcbCount, wcbErr, wcbSecond>>
                  ELSE SeriesCallback(Null, [i \in 1..Len(run) |-> TaskResult(run[i])])
               /\ stepsOk' = oks + 1
               /\ UNCHANGED <<pc, method, optPublic, optPrivate, autoPaginate>>
          ELSE /\ wpc' = "series"
               /\ stepsOk' = oks
               /\ UNCHANGED <<wcbCount, wcbErr, wcbSecond>>
               /\ pc' = "getFiles"
               /\ method' = "makeAllFilesPublicPrivate_"
               /\ optPublic' = (w = "makePublic")
               /\ optPrivate' = (w = "makePrivate")
               /\ autoPaginate' = TRUE

\* bucket.makePublic(options, callback) / bucket.makePrivate(options, callback):
\* async.series starts the first task.
CallWrapper(w, inc, frc) ==
    /\ pc = "idle"
    /\ wpc = "idle"
    /\ wrapper' = w
    /\ includeFiles' = inc
    /\ force' = frc
    /\ StartTask(w, inc, 1, stepsOk)
    /\ UNCHANGED <<remote, listed, files, nextIdx, running, done, fired, started,
                   pending, failed, errors, updatedFiles, cbCount, cbErr, cbFiles>>
    /\ UNCHANGED twoVars

\* The task running is a bucket-level request (setMetadata, acl.add,
\* acl.default.add) or a makeFiles* task that did not call
\* makeAllFilesPublicPrivate_.
BucketTaskRunning ==
    /\ wpc = "series"
    /\ pc = "idle"

\* Mutant: async.parallel semantics, the next task runs although this one failed.
SeriesNextIgnoresError(k, err, n) == IF k < n THEN k + 1 ELSE 0

\* async.series: the task to start when task k of n has called done(err):
\* the next one unless there was an error or none is left (0).
SeriesNext(k, err, n) == IF ~err /\ k < n THEN k + 1 ELSE 0

\* The task running calls done(err) (fails) or done(null, result).
BucketTaskDone(fails) ==
    /\ BucketTaskRunning
    /\ LET k == Len(stepsRun)
           nxt == SeriesNext(k, fails, Len(Tasks(wrapper)))
           oks == IF fails THEN stepsOk ELSE stepsOk + 1
       IN IF nxt # 0
          THEN StartTask(wrapper, includeFiles, nxt, oks)
          ELSE /\ SeriesCallback(IF fails THEN SingleError(BucketError) ELSE Null,
                                 ResultsSoFar)
               /\ stepsOk' = oks
               /\ UNCHANGED <<stepsRun, pc, method, optPublic, optPrivate, autoPaginate>>
    /\ UNCHANGED <<wrapper, includeFiles, force, remote, listed, files, nextIdx,
                   running, done, fired, started, pending, failed, errors,
                   updatedFiles, cbCount, cbErr, cbFiles>>
    /\ UNCHANGED twoVars

BucketTaskOk == BucketTaskDone(FALSE)

BucketTaskFail == BucketTaskDone(TRUE)

Next ==
    \/ \E m \in Methods, frc \in BOOLEAN, pub \in BOOLEAN, priv \in BOOLEAN,
          auto \in BOOLEAN :
          Call(m, frc, pub, priv, auto)
    \/ GetFilesError
    \/ GetFilesNextPage
    \/ GetFilesOk
    \/ \E f \in 1..MaxFiles : ActionOk(f)
    \/ \E f \in 1..MaxFiles : ActionFail(f)
    \/ \E w \in Wrappers, inc \in BOOLEAN, frc \in BOOLEAN : CallWrapper(w, inc, frc)
    \/ BucketTaskOk
    \/ BucketTaskFail

Spec == Init /\ [][Next]_vars

\* Some per-file action that has been started calls back.
SomeActionCallsBack == \E f \in 1..MaxFiles : ActionOk(f) \/ ActionFail(f)

\* bucket.deleteFiles called directly, with any query.
NextDeleteFiles ==
    \/ \E frc \in BOOLEAN, auto \in BOOLEAN : Call("deleteFiles", frc, FALSE, FALSE, auto)
    \/ GetFilesError
    \/ GetFilesNextPage
    \/ GetFilesOk
    \/ \E f \in 1..MaxFiles : ActionOk(f)
    \/ \E f \in 1..MaxFiles : ActionFail(f)

\* deleteFiles under the premise that every per-file action that has been
\* started eventually calls back (file.delete ends its request with the
\* callback).
SpecDeleteFilesLive == Init /\ [][NextDeleteFiles]_vars /\ WF_vars(SomeActionCallsBack)

\* bucket.makeAllFilesPublicPrivate_ called directly, with any options.
NextMakeAllFiles ==
    \/ \E frc \in BOOLEAN, pub \in BOOLEAN, priv \in BOOLEAN, auto \in BOOLEAN :
          Call("makeAllFilesPublicPrivate_", frc, pub, priv, auto)
    \/ GetFilesError
    \/ GetFilesNextPage
    \/ GetFilesOk
    \/ \E f \in 1..MaxFiles : ActionOk(f)
    \/ \E f \in 1..MaxFiles : ActionFail(f)

\* makeAllFilesPublicPrivate_ under the premise that every per-file action
\* that has been started eventually calls back.
SpecMakeAllFilesLive == Init /\ [][NextMakeAllFiles]_vars /\ WF_vars(SomeActionCallsBack)

\* Largest listing of an invocation in SpecTwo.
MaxFilesTwo == 2

\* Mutant: errors and updatedFiles are declared once, outside the methods.
ArraysOfShared(i) == 1

\* const errors = [] and const updatedFiles = [] are declared in the body of
\* deleteFiles / makeAllFilesPublicPrivate_: every invocation i has its own.
ArraysOf(i) == i

\* The state async.eachLimit keeps for invocation record r.
EngineOf(r) == [running |-> r.running, done |-> r.done, nextIdx |-> r.nextIdx, call |-> "none"]

\* Dispatch for invocation i with record r: eachLimit is left in state e after
\* the action of file f called back (f = 0: the first replenish); errs is the
\* errors array of the invocation.  Errors and files carry the invocation
\* whose action produced them.
DispatchTwo(r, i, e, f, errs) ==
    LET new == (r.nextIdx + 1)..e.nextIdx
        acts == IF HasAction(r.method, TRUE, FALSE) THEN new ELSE {}
        calls == FiresCallback(e.call, r.fired)
    IN [r EXCEPT !.running = e.running,
                 !.done = e.done,
                 !.nextIdx = e.nextIdx,
                 !.pending = (r.pending \ {f}) \cup acts,
                 !.fired = r.fired \/ calls,
                 !.cbCount = IF calls THEN r.cbCount + 1 ELSE r.cbCount,
                 !.cbErr = IF calls THEN FinalArg(e.call, <<i, f>>, errs) ELSE r.cbErr,
                 !.cbFiles = IF calls THEN FinalFiles(r.method) ELSE r.cbFiles]

\* bucket.deleteFiles(query, callback) or
\* bucket.makeAllFilesPublicPrivate_({public: true, force}, callback), as
\* invocation i: the arrays are created and getFiles is called.
CallTwo(i, m, frc) ==
    /\ inv[i].pc = "idle"
    /\ inv' = [inv EXCEPT ![i] =
                 [@ EXCEPT !.pc = "getFiles", !.method = m, !.force = frc,
                           !.overlapped = \E j \in Invocations \ {i} :
                                             /\ inv[j].pc \in {"getFiles", "eachLimit"}
                                             /\ inv[j].cbCount = 0]]
    /\ errStore' = [errStore EXCEPT ![ArraysOf(i)] = EmptyBag]
    /\ fileStore' = [fileStore EXCEPT ![ArraysOf(i)] = EmptyBag]
    /\ UNCHANGED <<bulkVars, seriesVars>>

\* getFiles of invocation i calls back with an error.
GetFilesErrorTwo(i) ==
    /\ inv[i].pc = "getFiles"
    /\ inv' = [inv EXCEPT ![i] =
                 [@ EXCEPT !.pc = "listError",
                           !.cbCount = @ + 1,
                           !.cbErr = SingleError(<<i, ListingError>>),
                           !.cbFiles = IF inv[i].method = "deleteFiles"
                                       THEN "{}" ELSE "none"]]
    /\ UNCHANGED <<errStore, fileStore, bulkVars, seriesVars>>

\* getFiles of invocation i calls back with the n files the bucket holds by
\* then (all pages): async.eachLimit(files, MAX_PARALLEL_LIMIT, ...).
GetFilesOkTwo(i, n) ==
    /\ inv[i].pc = "getFiles"
    /\ inv' = [inv EXCEPT ![i] =
                 DispatchTwo([@ EXCEPT !.pc = "eachLimit", !.n = n], i,
                             Replenish(EngineOf(@), n), 0,
                             errStore[ArraysOf(i)])]
    /\ UNCHANGED <<errStore, fileStore, bulkVars, seriesVars>>

\* The action invocation i started on file f calls back (err: with an error).
FileCallbackTwo(i, f, err) ==
    LET r == inv[i]
    IN /\ r.pc = "eachLimit"
       /\ f \in r.pending
       /\ errStore' = IF PushesError(err, r.force)
                      THEN [errStore EXCEPT ![ArraysOf(i)] = @ (+) SetToBag({<<i, f>>})]
                      ELSE errStore
       /\ fileStore' = IF PushesFile(r.method, err)
                       THEN [fileStore EXCEPT ![ArraysOf(i)] = @ (+) SetToBag({<<i, f>>})]
                       ELSE fileStore
       /\ inv' = [inv EXCEPT ![i] =
                    DispatchTwo([r EXCEPT !.failed = IF err THEN @ \cup {f} ELSE @], i,
                                IterateeCallback(EngineOf(r), PassesError(err, r.force), r.n),
                                f, errStore'[ArraysOf(i)])]
       /\ UNCHANGED <<bulkVars, seriesVars>>

ActionOkTwo(i, f) == FileCallbackTwo(i, f, FALSE)

ActionFailTwo(i, f) == FileCallbackTwo(i, f, TRUE)

InitTwo ==
    /\ Init
    /\ remote = 0

NextTwo ==
    \/ \E i \in Invocations, m \in Methods, frc \in BOOLEAN : CallTwo(i, m, frc)
    \/ \E i \in Invocations : GetFilesErrorTwo(i)
    \/ \E i \in Invocations, n \in 0..MaxFilesTwo : GetFilesOkTwo(i, n)
    \/ \E i \in Invocations, f \in 1..MaxFilesTwo : ActionOkTwo(i, f)
    \/ \E i \in Invocations, f \in 1..MaxFilesTwo : ActionFailTwo(i, f)

SpecTwo == InitTwo /\ [][NextTwo]_vars

TypeOK ==
    /\ pc \in {"idle", "getFiles", "eachLimit", "listError"}
    /\ running \in 0..MAX_PARALLEL_LIMIT
    /\ nextIdx \in 0..Len(files)
    /\ wrapper \in Wrappers \cup {"none"}
    /\ wpc \in {"idle", "series", "done"}
    /\ stepsOk \in 0..Len(stepsRun)
    /\ wcbCount \in 0..1

Range(q) == {q[i] : i \in 1..Len(q)}
AllFiles == 1..Len(files)
ForceRun == pc = "eachLimit" /\ force
FailFastRun == pc = "eachLimit" /\ ~force

\* C1: at every moment of deleteFiles and makeAllFilesPublicPrivate_, the
\* per-file actions started and not yet called back number at most 10, and so
\* do the iteratee invocations the dispatcher counts as running.
C1_InFlightAtMostTen ==
    /\ Cardinality(pending) <= 10
    /\ running <= 10

C1_Witness ==
    /\ Cardinality(pending) = 10
    /\ nextIdx > 10

\* C2: when makeAllFilesPublicPrivate_ run with force has called back over a
\* listing of n files, each listed file occurs exactly once in updatedFiles and
\* errors taken together, so their sizes add up to n.
C2_ForceAccountsEachFileOnce ==
    (ForceRun /\ method = "makeAllFilesPublicPrivate_" /\ cbCount > 0) =>
        /\ \A f \in AllFiles : CopiesIn(f, updatedFiles) + CopiesIn(f, errors) = 1
        /\ BagCardinality(updatedFiles) + BagCardinality(errors) = Len(files)

C2_Witness ==
    /\ ForceRun /\ method = "makeAllFilesPublicPrivate_" /\ cbCount > 0
    /\ Len(files) > MAX_PARALLEL_LIMIT
    /\ BagCardinality(errors) = 2
    /\ BagCardinality(updatedFiles) = Len(files) - 2

\* C3: without force, a step in or after which some per-file action has called
\* back with an error starts no per-file action.
C3_NoStartAfterFailure ==
    [][(~force /\ failed' # {}) => started' = started]_vars

C3_Witness ==
    /\ FailFastRun
    /\ failed # {}
    /\ pending = {}
    /\ nextIdx < Len(files)

\* C4 as claimed: without force, the completion callback has never been invoked
\* while a per-file action is still in flight.
C4_Original ==
    (FailFastRun /\ cbCount > 0) => pending = {}

\* C4 amended: without force, the completion callback is invoked in the step
\* in which the first per-file action calls back with an error, whatever is
\* still in flight; only a run without any failure calls back with nothing in
\* flight.
C4_CallbackAtFirstFailure ==
    FailFastRun =>
        /\ failed # {} => cbCount = 1
        /\ (cbCount > 0 /\ failed = {}) => pending = {}

C4_Witness ==
    /\ FailFastRun
    /\ Cardinality(failed) = 1
    /\ cbCount = 1
    /\ Cardinality(pending) = MAX_PARALLEL_LIMIT - 1

\* C5: without force, the step in which the first per-file action fails
\* invokes the completion callback with that action's error as a single error,
\* and no later step changes the callback's argument or invokes it again.
C5_FirstErrorIsResult ==
    [][FailFastRun =>
         /\ \A f \in AllFiles :
               (failed = {} /\ failed' = {f}) =>
                   (cbErr' = SingleError(f) /\ cbCount' = 1)
         /\ failed # {} => (cbErr' = cbErr /\ cbCount' = cbCount)]_vars

C5_Witness ==
    /\ FailFastRun
    /\ cbCount = 1
    /\ pending = {}
    /\ \E f \in failed, g \in failed : g < f /\ cbErr = SingleError(f)

\* C6: with force, a failure never stops the dispatch: while listed files are
\* still to be taken the window is full and the dispatcher is not done, and a
\* run that has called back has started the action of every listed file.
C6_ForceStartsEveryFile ==
    ForceRun =>
        /\ nextIdx < Len(files) => (running = MAX_PARALLEL_LIMIT /\ ~done)
        /\ cbCount > 0 => Range(started) = AllFiles

C6_Witness ==
    /\ ForceRun
    /\ cbCount > 0
    /\ Len(files) > MAX_PARALLEL_LIMIT
    /\ Range(started) = AllFiles
    /\ 1 \in failed /\ 2 \in failed

\* C7: when getFiles fails, in either mode the completion callback is invoked
\* once with the listing error alone, no per-file action is ever invoked and
\* nothing is put into errors; no run over a listing reports the listing error.
C7_ListingErrorAlone ==
    /\ pc = "listError" =>
          /\ cbCount = 1
          /\ cbErr = SingleError(ListingError)
          /\ started = <<>> /\ pending = {} /\ running = 0 /\ nextIdx = 0
          /\ errors = EmptyBag /\ updatedFiles = EmptyBag
    /\ pc = "eachLimit" => cbErr # SingleError(ListingError)

C7_Witness ==
    /\ pc = "listError"
    /\ force
    /\ method = "makeAllFilesPublicPrivate_"
    /\ cbErr = SingleError(ListingError)

\* C8: with force, a run over a listing that has called back reports null
\* exactly when no per-file action failed, and otherwise reports the errors
\* array, which holds exactly one error for each failed file.
C8_ForceResult ==
    (ForceRun /\ cbCount > 0) =>
        /\ cbErr = Null <=> failed = {}
        /\ failed # {} => (cbErr = ErrorsArray /\ errors = SetToBag(failed))

C8_Witness ==
    /\ ForceRun /\ cbCount > 0
    /\ method = "deleteFiles"
    /\ cbErr = ErrorsArray
    /\ Cardinality(failed) = 2
    /\ BagCardinality(errors) = 2

\* C9: with force, when the completion callback has been invoked after a
\* listing, every listed file's action has been started and has called back:
\* nothing is left in the iterator and nothing is in flight.
C9_ForceCallbackAfterAll ==
    (ForceRun /\ cbCount > 0) =>
        /\ nextIdx = Len(files)
        /\ Len(started) = Len(files)
        /\ pending = {}
        /\ running = 0

C9_Witness ==
    /\ ForceRun /\ cbCount = 1
    /\ optPrivate /\ ~optPublic
    /\ Len(files) = MAX_PARALLEL_LIMIT + 1
    /\ failed # {}
    /\ pending = {}

\* Files whose action has called back without an error.
Succeeded == (Range(started) \ pending) \ failed

\* C11: in every mode no listed file's action is started twice (so a failed
\* action is never started again), only listed files are started, and a run
\* that has called back without any failure has started every listed file.
C11_StartedAtMostOnce ==
    /\ \A i, j \in 1..Len(started) : started[i] = started[j] => i = j
    /\ Range(started) \subseteq AllFiles
    /\ failed \cap pending = {}
    /\ (pc = "eachLimit" /\ cbCount > 0 /\ failed = {}) => Range(started) = AllFiles

C11_Witness ==
    /\ ForceRun
    /\ cbCount > 0
    /\ Cardinality(failed) = 2
    /\ Len(started) = Len(files)
    /\ Len(files) > MAX_PARALLEL_LIMIT

\* C12: with force, when the run has called back the errors array holds
\* exactly the errors of the files whose action failed, and
\* makeAllFilesPublicPrivate_ hands over updatedFiles holding exactly the files
\* whose action succeeded; together they are all listed files.
C12_ForceExactSets ==
    (ForceRun /\ cbCount > 0) =>
        /\ errors = SetToBag(failed)
        /\ Succeeded \cup failed = AllFiles
        /\ method = "makeAllFilesPublicPrivate_" =>
              (updatedFiles = SetToBag(Succeeded) /\ cbFiles = "updatedFiles")

\* 11 files with limit 10, failures at positions 3 and 11.
C12_Witness ==
    /\ ForceRun /\ cbCount > 0
    /\ method = "makeAllFilesPublicPrivate_"
    /\ Len(files) = 11
    /\ failed = {3, 11}
    /\ BagToSet(errors) = {3, 11}
    /\ BagCardinality(updatedFiles) = 9

\* C13 as claimed: once the run has called back, every error a per-file action
\* returned is in the delivered errors array (force) or is the error the
\* operation completed with (no force).
C13_Original ==
    (pc = "eachLimit" /\ cbCount > 0) =>
        \A f \in failed :
            \/ force /\ cbErr = ErrorsArray /\ BagIn(f, errors)
            \/ ~force /\ cbErr = SingleError(f)

\* C13 amended: with force every returned error is in the delivered errors
\* array; without force the operation completes with the error of one failed
\* action (the first, C5), and the errors of actions that fail after it are
\* not reported.
C13_ErrorsReported ==
    /\ (ForceRun /\ cbCount > 0) =>
          /\ \A f \in failed : BagIn(f, errors)
          /\ failed # {} => cbErr = ErrorsArray
    /\ FailFastRun =>
          /\ failed # {} => \E f \in failed : cbErr = SingleError(f)
          /\ cbCount <= 1

C13_Witness ==
    /\ FailFastRun
    /\ cbCount = 1
    /\ \E f \in failed, g \in failed : f < g /\ cbErr = SingleError(f)

Min(a, b) == IF a < b THEN a ELSE b

\* C14 as claimed: for every query, a run that has called back and that no
\* failure stopped has started the action of every object that matches the
\* query, on every page of the listing.
C14_Original ==
    (pc = "eachLimit" /\ cbCount > 0 /\ (force \/ failed = {})) =>
        Range(started) = 1..remote

\* C14 amended: for a query that leaves automatic pagination on, such a run has
\* started the action of every matching object on every page; with
\* autoPaginate: false it has started exactly the objects of the first page.
C14_AllPagesUnlessManual ==
    (pc = "eachLimit" /\ cbCount > 0 /\ (force \/ failed = {})) =>
        Range(started) = IF autoPaginate THEN 1..remote
                         ELSE 1..Min(PageSize, remote)

C14_Witness ==
    /\ pc = "eachLimit" /\ cbCount > 0
    /\ autoPaginate
    /\ remote > 2 * PageSize
    /\ failed # {}
    /\ Range(started) = 1..remote

\* C15 as claimed: the outcome of a force-mode run, of deleteFiles as of
\* makeAllFilesPublicPrivate_, contains the list of the objects that succeeded.
C15_Original ==
    (ForceRun /\ cbCount > 0) => cbFiles = "updatedFiles"

\* C15 amended: a force-mode run of makeAllFilesPublicPrivate_ hands over null
\* or the errors array (one error per failure, the errors alone) and
\* updatedFiles, the files that succeeded; a force-mode run of deleteFiles
\* hands over null or the errors array and no list of files.
C15_ForceOutcomeShape ==
    (ForceRun /\ cbCount > 0) =>
        /\ cbErr \in {Null, ErrorsArray}
        /\ BagCardinality(errors) = Cardinality(failed)
        /\ IF method = "makeAllFilesPublicPrivate_"
           THEN cbFiles = "updatedFiles" /\ BagToSet(updatedFiles) = Succeeded
           ELSE cbFiles = "none" /\ updatedFiles = EmptyBag

C15_Witness ==
    /\ ForceRun /\ cbCount > 0
    /\ method = "deleteFiles"
    /\ failed # {}
    /\ Succeeded # {}
    /\ cbFiles = "none"

\* What happened, for a run that has called back.
Outcome ==
    IF pc = "listError" THEN "could not run"
    ELSE IF failed = {} THEN "success"
    ELSE IF force THEN "ran with failures"
    ELSE "stopped early"

\* What the caller of method m reads from the callback arguments: the kind of
\* the first argument and the second argument.
Told(m, kind, second) ==
    IF kind = "null" THEN "success"
    ELSE IF kind = "errors" THEN "ran with failures"
    ELSE IF second = (IF m = "deleteFiles" THEN "{}" ELSE "none")
         THEN "could not run"
         ELSE "stopped early"

\* C16: the callback arguments of a run determine its outcome: a listing
\* error, an aggregated array of failures and a stop at the first failure never
\* come with the same arguments.  The error values themselves are not looked
\* at; a listing error and a first per-file error differ in the second argument.
C16_OutcomesDistinguishable ==
    cbCount > 0 => Told(method, cbErr[1], cbFiles) = Outcome

C16_Witness ==
    /\ FailFastRun /\ cbCount > 0
    /\ method = "deleteFiles"
    /\ failed # {}
    /\ cbErr[1] = "error"
    /\ cbFiles = "none"

\* The wrapper's makeFiles* task called makeAllFilesPublicPrivate_ and that
\* run has called back, so the series has completed.
FilesTaskCalledBack == wrapper # "none" /\ includeFiles /\ cbCount > 0

\* C17 as claimed: makePublic / makePrivate with includeFiles: true pass as
\* the second callback argument the array of the files made public / private,
\* and as the first argument what makeAllFilesPublicPrivate_ reported.
C17_Claim ==
    FilesTaskCalledBack =>
        /\ wcbErr = cbErr
        /\ wcbSecond = FilesArray

\* What the code passes instead: the results array of async.series, one entry
\* per task, whose last entry is the array of files.
C17_SecondIsResultsArray ==
    FilesTaskCalledBack =>
        /\ wcbCount = 1
        /\ wcbErr = cbErr
        /\ wcbSecond[1] = "results"
        /\ Len(wcbSecond[2]) = Len(stepsRun)
        /\ wcbSecond[2][Len(stepsRun)] = cbFiles
        /\ \A i \in 1..(Len(stepsRun) - 1) : wcbSecond[2][i] = "response"

C17_Witness ==
    /\ FilesTaskCalledBack
    /\ wrapper = "makePrivate"
    /\ wcbErr = Null
    /\ wcbSecond = Results(<<"response", "updatedFiles">>)
    /\ BagCardinality(updatedFiles) = 2

\* C18: makePrivate runs setPredefinedAcl, then makeFilesPrivate; makePublic
\* runs addAclPermissions, addDefaultAclPermissions, then makeFilesPublic.  A
\* task starts only after every task before it has succeeded; when a task
\* fails the callback has received an error, and after a bucket-level
\* failure no later task has started, no file is listed and no per-file
\* action is started.
C18_StepsInSequence ==
    wrapper # "none" =>
        /\ \E k \in 0..3 :
              /\ k = Len(stepsRun)
              /\ stepsRun =
                    SubSeq(IF wrapper = "makePrivate"
                           THEN <<"setPredefinedAcl", "makeFilesPrivate">>
                           ELSE <<"addAclPermissions", "addDefaultAclPermissions",
                                  "makeFilesPublic">>, 1, k)
        /\ Len(stepsRun) <= stepsOk + 1
        /\ (pc # "idle") => stepsOk >= (IF wrapper = "makePrivate" THEN 1 ELSE 2)
        /\ (wpc = "done" /\ stepsOk < Len(stepsRun)) =>
              /\ wcbCount = 1
              /\ wcbErr[1] \in {"error", "errors"}
        /\ wcbErr = SingleError(BucketError) =>
              /\ wpc = "done"
              /\ Len(stepsRun) = stepsOk + 1
              /\ stepsRun[Len(stepsRun)] \notin {"makeFilesPrivate", "makeFilesPublic"}
              /\ pc = "idle"
              /\ listed = 0
              /\ started = <<>>

C18_Witness ==
    /\ wrapper = "makePublic"
    /\ includeFiles
    /\ stepsRun = <<"addAclPermissions", "addDefaultAclPermissions">>
    /\ stepsOk = 1
    /\ wcbCount = 1
    /\ wcbErr = SingleError(BucketError)
    /\ remote > 0

\* C19: makePublic / makePrivate called without includeFiles never call
\* makeAllFilesPublicPrivate_: no list request is made, no per-file action is
\* started and the bulk callback is never used; once the bucket-level tasks
\* have all succeeded the callback has been invoked, once, without an error.
C19_NoFilesWithoutIncludeFiles ==
    (wrapper # "none" /\ ~includeFiles) =>
        /\ pc = "idle"
        /\ listed = 0
        /\ files = <<>>
        /\ started = <<>>
        /\ cbCount = 0
        /\ stepsOk >= (IF wrapper = "makePrivate" THEN 1 ELSE 2) =>
              /\ wpc = "done"
              /\ wcbCount = 1
              /\ wcbErr = Null

C19_Witness ==
    /\ wrapper = "makePublic"
    /\ ~includeFiles
    /\ remote > 0
    /\ stepsRun = <<"addAclPermissions", "addDefaultAclPermissions", "makeFilesPublic">>
    /\ wcbCount = 1
    /\ wcbErr = Null

\* The errors and the files invocation i reports: the arrays its callback is
\* handed.
ReportedErrors(i) == BagToSet(errStore[ArraysOf(i)])
ReportedFiles(i) == BagToSet(fileStore[ArraysOf(i)])

\* C20: of two bulk operations running on one bucket, concurrently or one
\* after the other, each reports only errors and files of actions it started
\* itself: every reported error is the error of one of its own failed
\* actions, every reported file one its own action succeeded on, and the
\* first argument of its callback reflects its own failures only.
C20_NoSharedState ==
    \A i \in Invocations :
        /\ \A e \in ReportedErrors(i) : e[1] = i /\ e[2] \in inv[i].failed
        /\ \A u \in ReportedFiles(i) :
              /\ u[1] = i
              /\ u[2] \in (1..inv[i].nextIdx) \ (inv[i].pending \cup inv[i].failed)
        /\ inv[i].cbErr[1] = "error" => inv[i].cbErr[2][1] = i
        /\ inv[i].cbErr = ErrorsArray => inv[i].failed # {}
        /\ (inv[i].cbErr = Null /\ inv[i].force) => inv[i].failed = {}

C20_Witness ==
    /\ inv[2].overlapped
    /\ \A i \in Invocations :
          /\ inv[i].force
          /\ inv[i].cbCount = 1
          /\ inv[i].cbErr = ErrorsArray
          /\ ReportedErrors(i) # {}
    /\ inv[1].method = "makeAllFilesPublicPrivate_"
    /\ inv[2].method = "deleteFiles"
    /\ ReportedFiles(1) # {}
    /\ ReportedErrors(1) # ReportedErrors(2)

\* Invocation i ran over a listing of n files, every action succeeded and
\* none is outstanding.
RanClean(i, n) ==
    /\ inv[i].pc = "eachLimit"
    /\ inv[i].n = n
    /\ inv[i].nextIdx = n
    /\ inv[i].pending = {}
    /\ inv[i].failed = {}

\* C21: when the same bulk operation (same method, same force) has run twice
\* over the same set of files and every action succeeded, both runs end the
\* same way: the callback is invoked once with a null error, no error is
\* recorded, and makeAllFilesPublicPrivate_ hands over updatedFiles holding
\* every listed file exactly once.
C21_SameOutcomeTwice ==
    \A n \in 0..MaxFilesTwo :
        (/\ RanClean(1, n) /\ RanClean(2, n)
         /\ inv[1].method = inv[2].method
         /\ inv[1].force = inv[2].force) =>
            \A i \in Invocations :
                /\ inv[i].cbCount = 1
                /\ inv[i].cbErr = Null
                /\ errStore[ArraysOf(i)] = EmptyBag
                /\ IF inv[i].method = "makeAllFilesPublicPrivate_"
                   THEN /\ inv[i].cbFiles = "updatedFiles"
                        /\ ReportedFiles(i) = {<<i, f>> : f \in 1..n}
                        /\ BagCardinality(fileStore[ArraysOf(i)]) = n
                   ELSE /\ inv[i].cbFiles = "none"
                        /\ fileStore[ArraysOf(i)] = EmptyBag

\* The second run was called after the first had called back.
C21_Witness ==
    /\ RanClean(1, MaxFilesTwo) /\ RanClean(2, MaxFilesTwo)
    /\ ~inv[1].overlapped /\ ~inv[2].overlapped
    /\ \A i \in Invocations :
          /\ inv[i].method = "makeAllFilesPublicPrivate_"
          /\ ~inv[i].force
          /\ inv[i].cbErr = Null
          /\ BagCardinality(fileStore[ArraysOf(i)]) = MaxFilesTwo

\* C22: in every state of a run in which dispatching has not been stopped by
\* a failure (force, or no failure yet), the number of iteratee invocations
\* in flight is min(10, in flight + not yet started): a file waits only while
\* 10 are in flight.  When the method has an action per file, the actions
\* awaiting their callback are exactly those in flight.
C22_WorkConserving ==
    (pc = "eachLimit" /\ (force \/ failed = {})) =>
        /\ running = Min(10, running + (Len(files) - nextIdx))
        /\ HasAction(method, optPublic, optPrivate) =>
              /\ Cardinality(pending) = running
              /\ Len(started) = nextIdx

C22_Witness ==
    /\ ForceRun
    /\ failed # {}
    /\ Len(files) > 10
    /\ nextIdx = Len(files)
    /\ running = 10
    /\ cbCount = 0

\* C23: once the listing of deleteFiles has succeeded, and as every started
\* action calls back, the completion callback is eventually invoked, with
\* force and without, for listings of up to MaxFiles files (more than 10).
C23_DeleteFilesCallsBack ==
    (method = "deleteFiles" /\ pc = "eachLimit") ~> (cbCount > 0)

C23_Witness ==
    /\ method = "deleteFiles"
    /\ pc = "eachLimit"
    /\ Len(files) > 10
    /\ pending = {}
    /\ cbCount = 1
    /\ failed = {}

\* C24: when the listing returns no files, deleteFiles and
\* makeAllFilesPublicPrivate_ (whatever its options) have invoked the callback
\* once with a null error, makeAllFilesPublicPrivate_ with an empty
\* updatedFiles, and no per-file action has been started.
C24_EmptyListing ==
    (pc = "eachLimit" /\ Len(files) = 0) =>
        /\ cbCount = 1
        /\ cbErr = Null
        /\ cbFiles = (IF method = "makeAllFilesPublicPrivate_" THEN "updatedFiles" ELSE "none")
        /\ updatedFiles = EmptyBag
        /\ errors = EmptyBag
        /\ started = <<>>
        /\ pending = {}
        /\ running = 0

C24_Witness ==
    /\ pc = "eachLimit"
    /\ files = <<>>
    /\ method = "makeAllFilesPublicPrivate_"
    /\ ~optPublic /\ ~optPrivate
    /\ wrapper = "none"
    /\ cbCount = 1
    /\ cbFiles = "updatedFiles"

\* C25: the completion callback of deleteFiles / makeAllFilesPublicPrivate_
\* is invoked at most once per invocation: once it has been invoked no
\* further invocation follows, whatever the in-flight actions call back with.
C25_CallbackAtMostOnce ==
    /\ cbCount <= 1
    /\ (cbCount = 1) = (fired \/ pc = "listError")

\* Two actions failed in fail-fast mode and everything in flight has called back.
C25_Witness ==
    /\ FailFastRun
    /\ Cardinality(failed) >= 2
    /\ pending = {}
    /\ Succeeded # {}
    /\ cbCount = 1

\* C26 as claimed: in fail-fast mode, once makeAllFilesPublicPrivate_ has
\* invoked the completion callback, the updatedFiles array it handed to the
\* caller is not changed by in-flight actions that call back later.
C26_Claim ==
    [][(FailFastRun /\ method = "makeAllFilesPublicPrivate_" /\ cbCount > 0)
           => updatedFiles' = updatedFiles]_vars

\* What the code does: the caller holds the array itself, and an in-flight
\* action that succeeds after the callback still pushes its file.
C26_UpdatedFilesGrowsAfterCallback ==
    /\ FailFastRun
    /\ method = "makeAllFilesPublicPrivate_"
    /\ cbCount = 1
    /\ cbErr = SingleError(1)
    /\ pending = {}
    /\ failed = {1}
    /\ BagToSet(updatedFiles) = {2}

\* The listed files by state: not taken from the iterator yet, action started
\* and awaiting its callback, action called back.
NotStarted == {f \in AllFiles : f > nextIdx}
InFlight == pending
Completed == Range(started) \ pending

\* C27: in every state of a run the dispatcher's counters agree with the
\* files: not started + in flight (running) + completed = number of listed
\* files, running is never negative, and when the method has an action per
\* file each listed file is in exactly one of the three states, is started at
\* most once, and its completion is recorded at most once.
C27_CountsPartition ==
    pc = "eachLimit" =>
        /\ running >= 0
        /\ nextIdx <= Len(files)
        /\ (Len(files) - nextIdx) + running + Cardinality(Completed) = Len(files)
        /\ HasAction(method, optPublic, optPrivate) =>
              /\ started = Listing(nextIdx)
              /\ Cardinality(InFlight) = running
              /\ NotStarted \cup InFlight \cup Completed = AllFiles
              /\ NotStarted \cap InFlight = {}
              /\ NotStarted \cap Completed = {}
              /\ failed \subseteq Completed
              /\ \A f \in AllFiles :
                    CopiesIn(f, updatedFiles) + CopiesIn(f, errors)
                        <= (IF f \in Completed THEN 1 ELSE 0)

C27_Witness ==
    /\ FailFastRun
    /\ NotStarted # {}
    /\ InFlight # {}
    /\ Cardinality(Completed) >= 2
    /\ failed # {}
    /\ cbCount = 1

\* C28: the mode fixes the shape of the error argument.  Without force the
\* errors array stays empty and the callback never receives an array.  With
\* force a single error is the listing error and nothing else, and per-file
\* failures reach the callback as the errors array.
C28_ErrorShapeByMode ==
    /\ ~force =>
          /\ errors = EmptyBag
          /\ cbErr # ErrorsArray
    /\ force =>
          /\ cbErr[1] = "error" => (pc = "listError" /\ cbErr = SingleError(ListingError))
          /\ (pc = "eachLimit" /\ cbCount > 0) =>
                cbErr = (IF failed # {} THEN ErrorsArray ELSE Null)

C28_Witness ==
    /\ ForceRun
    /\ method = "deleteFiles"
    /\ Len(files) = 1
    /\ failed = {1}
    /\ cbErr = ErrorsArray
    /\ BagCardinality(errors) = 1

\* C29 as claimed: once the listing of makeAllFilesPublicPrivate_ has
\* returned, and as every started action calls back, the completion callback
\* is eventually invoked, whatever the options.
C29_Claim ==
    (method = "makeAllFilesPublicPrivate_" /\ pc = "eachLimit") ~> (cbCount > 0)

\* What the code does with options naming neither public nor private and a
\* file listed: processFile is invoked, starts no action and never calls its
\* callback; nothing is outstanding and the completion callback is never run.
C29_Stuck ==
    /\ method = "makeAllFilesPublicPrivate_"
    /\ pc = "eachLimit"
    /\ ~optPublic /\ ~optPrivate
    /\ Len(files) >= 1
    /\ running = Min(10, Len(files))
    /\ started = <<>>
    /\ pending = {}
    /\ cbCount = 0
    /\ ~ENABLED NextMakeAllFiles

\* With public or private set, the completion callback is eventually invoked.
C29_CallsBackWithAction ==
    (method = "makeAllFilesPublicPrivate_" /\ pc = "eachLimit"
         /\ HasAction(method, optPublic, optPrivate)) ~> (cbCount > 0)

====
